---- MODULE Spec2Model ----
(***************************************************************************)
(* Model of the MCP chat client (src/mcp-client/app.py): the session       *)
(* (mcp_client, mcp_tools), connect_to_mcp_server, the tool descriptor     *)
(* translator convert_mcp_tool_to_claude_format, the dispatcher            *)
(* handle_tool_calls and the orchestration loop predict.                   *)
(*                                                                         *)
(* The coroutines run on one event loop: a coroutine keeps the loop until  *)
(* it reaches an await, so every action below runs from one await (or the  *)
(* call) to the next await (or the return).  The chat-model call           *)
(* client.messages.create is synchronous and is no yield point.            *)
(*                                                                         *)
(* The provider's tool generate_image (src/mcp-server/server.py) is        *)
(* modelled on its own, as a function of what the remote image service     *)
(* and the file system give it.                                            *)
(***************************************************************************)
EXTENDS Integers, Sequences, FiniteSets, TLC

\* ------------------------------------------------------------------ bounds
MaxConnects == 2      \* connect_to_mcp_server invocations in one run
MaxRounds == 3        \* chat-model calls of one predict invocation
MaxBatch == 2         \* tool-use blocks in one model response
MaxPath == 4          \* pieces in an image path the image service returns

\* Python's None for mcp_client; connections are numbered from 1.
None == 0

\* --------------------------------------------------------- python values
\* A missing attribute of a string-valued field.
NoAttr == "<absent>"
AbsentV == [tag |-> "absent"]
NoneV == [tag |-> "none"]
MapV(m) == [tag |-> "map", m |-> m]
ListV(l) == [tag |-> "list", l |-> l]
EmptyMap == << >>

\* d[k] = v on a dict held as a function.
DictSet(m, k, v) == [x \in (DOMAIN m) \cup {k} |-> IF x = k THEN v ELSE m[x]]

\* bool(x) of the values a descriptor field can hold.
Truthy(v) ==
    CASE v.tag = "absent" -> FALSE
      [] v.tag = "none" -> FALSE
      [] v.tag = "map" -> DOMAIN v.m # {}
      [] v.tag = "list" -> Len(v.l) > 0
      [] OTHER -> TRUE

\* ------------------------------------------- tool descriptor translator
\* A tool descriptor (tool_info) is a record
\*   [name, description : string or NoAttr,
\*    inputSchema, input_schema : AbsentV | NoneV | [tag |-> "other"] |
\*        [tag |-> "dict", hasProps, props, hasReq, req],
\*    parameters : AbsentV | NoneV | [tag |-> "int"] | ListV(<<param, ...>>),
\*    signature : AbsentV | NoneV | [tag |-> "sig", hasParams, params]]
\* param = [name, type, description : string or NoAttr, required : BOOLEAN,
\*          enum : sequence]; a signature parameter is
\* [name, annotation, hasDefault].

\* One entry of properties (param_def); items and enum are "-" and << >>
\* when the key is not set.
ParamDefV(t, d, items, enum) ==
    [type |-> t, description |-> d, items |-> items, enum |-> enum]

\* lines 115-120: the camelCase attribute is looked up first.
SchemaOf(tool_info) ==
    IF tool_info.inputSchema.tag # "absent" THEN tool_info.inputSchema
    ELSE IF tool_info.input_schema.tag # "absent" THEN tool_info.input_schema
    ELSE NoneV

\* lines 123-136: properties and required after the structured schema.
SchemaProps(tool_info) ==
    LET input_schema == SchemaOf(tool_info) IN
    IF input_schema.tag = "dict" /\ input_schema.hasProps
    THEN input_schema.props ELSE MapV(EmptyMap)

SchemaRequired(tool_info) ==
    LET input_schema == SchemaOf(tool_info) IN
    IF input_schema.tag = "dict" /\ input_schema.hasReq
    THEN input_schema.req ELSE ListV(<< >>)

\* lines 144-163: the type lookup table of the parameter list.
ParamType(param) ==
    CASE param.type \in {"string", "str"} -> "string"
      [] param.type \in {"integer", "int"} -> "integer"
      [] param.type \in {"number", "float"} -> "number"
      [] param.type \in {"boolean", "bool"} -> "boolean"
      [] param.type \in {"array", "list"} -> "array"
      [] param.type \in {"object", "dict"} -> "object"
      [] OTHER -> "string"

\* lines 143-177: param_def of one entry of the parameter list.
ParamDef(param) ==
    ParamDefV(ParamType(param),
              IF param.description = NoAttr THEN "" ELSE param.description,
              IF ParamType(param) = "array" THEN "string" ELSE "-",
              param.enum)

ParamName(param) == IF param.name = NoAttr THEN "" ELSE param.name

\* lines 179-183: properties[param_name] = param_def raises on a
\* properties that is no dict, required.append on a required that is no list.
StoreParam(st, name, def, isRequired) ==
    IF st.props.tag # "map" THEN [st EXCEPT !.raised = TRUE]
    ELSE LET st1 == [st EXCEPT !.props = MapV(DictSet(st.props.m, name, def))] IN
         IF ~isRequired THEN st1
         ELSE IF st1.req.tag # "list" THEN [st1 EXCEPT !.raised = TRUE]
         ELSE [st1 EXCEPT !.req = ListV(Append(st1.req.l, name))]

\* lines 142-183: the loop over the parameter list.
RECURSIVE ParamLoop(_, _, _)
ParamLoop(params, i, st) ==
    IF st.raised \/ i > Len(params) THEN st
    ELSE ParamLoop(params, i + 1,
                   StoreParam(st, ParamName(params[i]), ParamDef(params[i]),
                              params[i].required))

\* lines 139-183: the parameter list is used when it is truthy and the
\* schema gave no (or empty) properties; len() of a non-sequence raises.
FromParameters(tool_info, st) ==
    LET parameters == tool_info.parameters IN
    IF ~(Truthy(parameters) /\ ~Truthy(st.props)) THEN st
    ELSE IF parameters.tag # "list" THEN [st EXCEPT !.raised = TRUE]
    ELSE ParamLoop(parameters.l, 1, st)

\* lines 197-214: the type of a signature parameter from its annotation.
AnnotationType(annotation) ==
    CASE annotation = "str" -> "string"
      [] annotation = "int" -> "integer"
      [] annotation = "float" -> "number"
      [] annotation = "bool" -> "boolean"
      [] annotation = "list" -> "array"
      [] annotation = "dict" -> "object"
      [] OTHER -> "string"

\* lines 192-226: the loop over the signature's parameters.
RECURSIVE SigLoop(_, _, _)
SigLoop(params, i, st) ==
    IF st.raised \/ i > Len(params) THEN st
    ELSE IF params[i].name = "self" THEN SigLoop(params, i + 1, st)
    ELSE SigLoop(params, i + 1,
                 StoreParam(st, params[i].name,
                            ParamDefV(AnnotationType(params[i].annotation),
                                      "param", "-", << >>),
                            ~params[i].hasDefault))

\* lines 186-226: the signature is used when properties is still empty.
FromSignature(tool_info, st) ==
    LET signature == tool_info.signature IN
    IF st.raised THEN st
    ELSE IF ~(~Truthy(st.props) /\ signature.tag # "absent") THEN st
    ELSE IF ~(signature.tag = "sig" /\ signature.hasParams) THEN st
    ELSE SigLoop(signature.params, 1, st)

\* lines 107-226: the body of the try block; raised tells that it raised.
ConvertBody(tool_info) ==
    FromSignature(tool_info,
        FromParameters(tool_info,
            [props |-> SchemaProps(tool_info),
             req |-> SchemaRequired(tool_info),
             raised |-> FALSE]))

\* lines 229-237: claude_tool.
ClaudeTool(tool_info, st) ==
    [name |-> IF tool_info.name = NoAttr THEN "" ELSE tool_info.name,
     description |-> IF tool_info.description = NoAttr THEN ""
                     ELSE tool_info.description,
     input_schema |-> [type |-> "object", properties |-> st.props,
                       required |-> st.req]]

\* lines 248-256: the tool returned by the except branch.
ConvertFallback(tool_info) ==
    [name |-> IF tool_info.name = NoAttr THEN "unknown_tool" ELSE tool_info.name,
     description |-> "conversion error",
     input_schema |-> [type |-> "object", properties |-> MapV(EmptyMap),
                       required |-> ListV(<< >>)]]

\* The translator with its except branch removed: the exception leaves it.
convert_without_except(tool_info) ==
    LET st == ConvertBody(tool_info) IN
    IF st.raised THEN [exception |-> "raised"] ELSE ClaudeTool(tool_info, st)

\* lines 95-256
convert_mcp_tool_to_claude_format(tool_info) ==
    LET st == ConvertBody(tool_info) IN
    IF st.raised THEN ConvertFallback(tool_info) ELSE ClaudeTool(tool_info, st)

\* lines 129-135, 179-183 and 222-226: properties and required are the
\* schema's own dict and list when the schema holds them, so what the loops
\* store is stored in the descriptor.  The descriptor after the call:
DescriptorAfter(tool_info) ==
    LET st == ConvertBody(tool_info)
        input_schema == SchemaOf(tool_info)
        after == IF input_schema.tag # "dict" THEN input_schema
                 ELSE [input_schema EXCEPT
                         !.props = IF input_schema.hasProps THEN st.props ELSE @,
                         !.req = IF input_schema.hasReq THEN st.req ELSE @]
    IN  IF tool_info.inputSchema.tag # "absent"
        THEN [tool_info EXCEPT !.inputSchema = after]
        ELSE IF tool_info.input_schema.tag # "absent"
        THEN [tool_info EXCEPT !.input_schema = after]
        ELSE tool_info

\* lines 229-237: a tool returned by the try block holds the very objects
\* properties and required, so it shows what a later call stores in the
\* schema's dict and list.  The tool returned for `given`, once the
\* descriptor has become `now`:
ResultAfter(tool, given, now) ==
    LET was == SchemaOf(given)
        is == SchemaOf(now)
    IN  IF ConvertBody(given).raised \/ was.tag # "dict" THEN tool
        ELSE [tool EXCEPT
                !.input_schema.properties = IF was.hasProps THEN is.props ELSE @,
                !.input_schema.required = IF was.hasReq THEN is.req ELSE @]

RECURSIVE ConvertAll(_)
\* line 77: the list comprehension over tools_info.
ConvertAll(tools_info) ==
    IF tools_info = << >> THEN << >>
    ELSE <<convert_mcp_tool_to_claude_format(Head(tools_info))>>
         \o ConvertAll(Tail(tools_info))

\* ------------------------------------------------ descriptors drawn
XDef == ParamDefV("string", "the x", "-", << >>)
PropsChoices == {NoneV, MapV(EmptyMap), MapV([n \in {"x"} |-> XDef])}
ReqChoices == {NoneV, ListV(<< >>), ListV(<<"x">>)}

DictSchemas ==
    {[tag |-> "dict", hasProps |-> hp, props |-> p, hasReq |-> hr, req |-> r] :
        hp \in BOOLEAN, p \in PropsChoices, hr \in BOOLEAN, r \in ReqChoices}

\* A key that is not in the dict holds NoneV, so that each dict is drawn once.
SchemaChoices ==
    {AbsentV, NoneV, [tag |-> "other"]}
    \cup {s \in DictSchemas : (~s.hasProps => s.props = NoneV)
                              /\ (~s.hasReq => s.req = NoneV)}

SnakeChoices ==
    {AbsentV,
     [tag |-> "dict", hasProps |-> TRUE, props |-> MapV([n \in {"x"} |-> XDef]),
      hasReq |-> TRUE, req |-> ListV(<<"x">>)]}

ParamY == [name |-> "y", type |-> "int", description |-> "the y",
           required |-> TRUE, enum |-> << >>]
ParamZ == [name |-> "z", type |-> "list", description |-> NoAttr,
           required |-> FALSE, enum |-> <<"e1", "e2">>]
ParamW == [name |-> NoAttr, type |-> NoAttr, description |-> NoAttr,
           required |-> TRUE, enum |-> << >>]

ParameterChoices ==
    {AbsentV, NoneV, [tag |-> "int"], ListV(<< >>), ListV(<<ParamY>>),
     ListV(<<ParamZ, ParamY>>), ListV(<<ParamW>>)}

SigParams ==
    <<[name |-> "self", annotation |-> "empty", hasDefault |-> FALSE],
      [name |-> "q", annotation |-> "int", hasDefault |-> FALSE],
      [name |-> "r", annotation |-> "empty", hasDefault |-> TRUE]>>

SignatureChoices ==
    {AbsentV, NoneV,
     [tag |-> "sig", hasParams |-> FALSE, params |-> << >>],
     [tag |-> "sig", hasParams |-> TRUE, params |-> SigParams]}

Descriptors ==
    [name : {NoAttr, "gen"}, description : {NoAttr, "draws"},
     inputSchema : SchemaChoices, input_schema : SnakeChoices,
     parameters : ParameterChoices, signature : SignatureChoices]


\* ---------------------------------------------------------------- state
VARIABLES
    mcp_client,     \* line 27: None or the connection held by the session
    mcp_tools,      \* line 28: the translated tool list
    conns,          \* every fastmcp.Client created: [st, path], st in new/open/closed
    cpc,            \* connect_to_mcp_server: the await each invocation is at
    cpath,          \* its server_path
    ctarget,        \* the client object its pending await was called on
    cown,           \* the client it created at line 58 (None: not yet)
    covl,           \* whether another connect ran while it was in progress
    cret,           \* its last return value
    connHist,       \* the returned invocations, in order of return
    ppc,            \* predict: idle / AwaitingModel / ModelResponded /
                    \*          DispatchingTools / Done
    hpc,            \* handle_tool_calls: check / loop / await / ret / raised
    messages,       \* predict's message list
    api_tools,      \* api_params["tools"]; NoTools when the key is not set
    full_response,
    final_image,
    response,       \* the last model response
    k,              \* index of the tool call being handled
    results,        \* handle_tool_calls' results
    image_data,
    htarget,        \* the client call_tool was called on
    hret,           \* what handle_tool_calls returned: [single, list, image]
    pret,           \* what predict returned
    rounds,         \* chat-model calls issued by this predict invocation
    invoked,        \* the tool_use ids of this batch call_tool was invoked for
    failed,         \* the tool_use ids of this batch whose handling raised
    cv_in,          \* translator run on its own: the descriptor as given
    cv_out,         \* the tool it returned
    cv_after,       \* the descriptor object after the call
    cv_again,       \* the tool returned for the same object, translated again
    gradio_client,  \* server.py line 18: None or the image service client
    gi_in,          \* generate_image run on its own: prompt and environment
    gi_out          \* the list it returned

sessionVars == <<mcp_client, mcp_tools, conns>>
connectVars == <<cpc, cpath, ctarget, cown, covl, cret, connHist>>
dispatchVars == <<hpc, k, results, image_data, htarget, hret, invoked,
                  failed>>
predictVars == <<ppc, messages, api_tools, full_response, final_image,
                 response, pret, rounds>>
convertVars == <<cv_in, cv_out, cv_after, cv_again>>
serverVars == <<gradio_client, gi_in, gi_out>>
vars == <<sessionVars, connectVars, dispatchVars, predictVars, convertVars,
          serverVars>>

\* ------------------------------------------------------ tool providers
Procs == {1, 2}
ServerPaths == {"", " ", "a", "b"}

\* line 50: not server_path or server_path.strip() == ""
IsBlank(server_path) == server_path \in {"", " "}

\* The descriptor fastmcp reports for generate_image(prompt: str)
\* (src/mcp-server/server.py:27-28).
GenerateImageTool ==
    [name |-> "generate_image", description |-> "draws",
     inputSchema |->
        [tag |-> "dict", hasProps |-> TRUE,
         props |-> MapV([n \in {"prompt"} |->
                            ParamDefV("string", "", "-", << >>)]),
         hasReq |-> TRUE, req |-> ListV(<<"prompt">>)],
     input_schema |-> AbsentV, parameters |-> AbsentV, signature |-> AbsentV]

ListedTool ==
    [name |-> "resize", description |-> NoAttr, inputSchema |-> AbsentV,
     input_schema |-> AbsentV, parameters |-> ListV(<<ParamZ, ParamY>>),
     signature |-> AbsentV]

SignedTool ==
    [name |-> "caption", description |-> "captions", inputSchema |-> NoneV,
     input_schema |-> AbsentV, parameters |-> AbsentV,
     signature |-> [tag |-> "sig", hasParams |-> TRUE, params |-> SigParams]]

\* What list_tools() of the provider at server_path answers.
ProviderTools(server_path) ==
    IF server_path = "a" THEN <<GenerateImageTool>>
    ELSE <<ListedTool, SignedTool>>

OpenConns == {i \in 1..Len(conns) : conns[i].st = "open"}
InProgress == {c \in Procs : cpc[c] # "idle"}

\* The coroutine predict is suspended in an await (or is not running): only
\* then can the event loop run a step of another coroutine.
PredictYields ==
    \/ ppc \in {"idle", "Done"}
    \/ ppc = "DispatchingTools" /\ hpc = "await"

\* -------------------------------------------------- connect_to_mcp_server
SetConn(cns, i, st) == [cns EXCEPT ![i].st = st]

\* The assignments a step of invocation c makes; res # "" is its return.
CStep(c, client, tools, cns, pc, target, own, res) ==
    /\ mcp_client' = client
    /\ mcp_tools' = tools
    /\ conns' = cns
    /\ cpc' = [cpc EXCEPT ![c] = pc]
    /\ ctarget' = [ctarget EXCEPT ![c] = target]
    /\ cown' = [cown EXCEPT ![c] = IF res = "" THEN own ELSE None]
    /\ IF res = ""
       THEN UNCHANGED <<cret, connHist>>
       ELSE /\ cret' = [cret EXCEPT ![c] =
                          [msg |-> res, path |-> cpath'[c],
                           connected |-> res = "ok", ntools |-> Len(tools)]]
            /\ connHist' = Append(connHist,
                              [proc |-> c, res |-> res, conn |-> own,
                               path |-> cpath'[c], overlapped |-> covl'[c]])

\* lines 85-93: the except branch, entered with the session as given.  It
\* awaits __aexit__ of whatever mcp_client holds now, or returns at once.
ConnectExcept(c, client, tools, cns) ==
    IF client # None
    THEN CStep(c, client, tools, cns, "exiting", client, cown[c], "")
    ELSE CStep(c, None, << >>, cns, "idle", None, cown[c], "fail")

\* lines 49-67, entered after the close of lines 44-47: the blank path
\* returns, the transport or the client may fail to be created, and otherwise
\* mcp_client is the new client and __aenter__ is awaited.
ConnectCreate(c, server_path, client, tools, cns) ==
    IF IsBlank(server_path)
    THEN CStep(c, client, tools, cns, "idle", None, None, "nopath")
    ELSE \/ ConnectExcept(c, client, tools, cns)
         \/ LET new == Len(cns) + 1 IN
            CStep(c, new, tools,
                  Append(cns, [st |-> "new", path |-> server_path]),
                  "entering", new, new, "")

\* Lines 40-67 without the close of lines 44-47.
ConnectBeginKeepsOld(c, server_path) ==
    /\ PredictYields
    /\ ppc # "Done"
    /\ cpc[c] = "idle"
    /\ \A d \in Procs : d < c => cpc[d] # "idle"
    /\ Len(connHist) + Cardinality(InProgress) < MaxConnects
    /\ cpath' = [cpath EXCEPT ![c] = server_path]
    /\ covl' = [d \in Procs |->
                  IF d = c THEN InProgress # {}
                  ELSE covl[d] \/ d \in InProgress]
    /\ ConnectCreate(c, server_path, mcp_client, mcp_tools, conns)
    /\ UNCHANGED <<dispatchVars, predictVars, convertVars,
                 serverVars>>

\* Lines 40-67 with the blank-path test of lines 50-51 made before the close
\* of lines 44-47.
ConnectBeginPathFirst(c, server_path) ==
    /\ PredictYields
    /\ ppc # "Done"
    /\ cpc[c] = "idle"
    /\ \A d \in Procs : d < c => cpc[d] # "idle"
    /\ Len(connHist) + Cardinality(InProgress) < MaxConnects
    /\ cpath' = [cpath EXCEPT ![c] = server_path]
    /\ covl' = [d \in Procs |->
                  IF d = c THEN InProgress # {}
                  ELSE covl[d] \/ d \in InProgress]
    /\ IF mcp_client # None /\ ~IsBlank(server_path)
       THEN CStep(c, mcp_client, mcp_tools, conns, "closing", mcp_client,
                  None, "")
       ELSE ConnectCreate(c, server_path, mcp_client, mcp_tools, conns)
    /\ UNCHANGED <<dispatchVars, predictVars, convertVars,
                 serverVars>>

\* lines 40-67 up to the first await.  A new invocation takes the first
\* coroutine that is free, and none is started once predict has returned
\* (predict never writes the session, so no behaviour of connect is lost).
ConnectBegin(c, server_path) ==
    /\ PredictYields
    /\ ppc # "Done"
    /\ cpc[c] = "idle"
    /\ \A d \in Procs : d < c => cpc[d] # "idle"
    /\ Len(connHist) + Cardinality(InProgress) < MaxConnects
    /\ cpath' = [cpath EXCEPT ![c] = server_path]
    /\ covl' = [d \in Procs |->
                  IF d = c THEN InProgress # {}
                  ELSE covl[d] \/ d \in InProgress]
    /\ IF mcp_client # None
       THEN CStep(c, mcp_client, mcp_tools, conns, "closing", mcp_client,
                  None, "")
       ELSE ConnectCreate(c, server_path, mcp_client, mcp_tools, conns)
    /\ UNCHANGED <<dispatchVars, predictVars, convertVars,
                 serverVars>>

\* lines 45-67: mcp_client.close() returned or raised.  A close that raised
\* may or may not have closed the connection.
ConnectClosed(c) ==
    /\ PredictYields
    /\ cpc[c] = "closing"
    /\ UNCHANGED <<cpath, covl>>
    /\ \/ ConnectCreate(c, cpath[c], None, << >>,
                        SetConn(conns, ctarget[c], "closed"))
       \/ \E st \in {conns[ctarget[c]].st, "closed"} :
            ConnectExcept(c, mcp_client, mcp_tools,
                          SetConn(conns, ctarget[c], st))
    /\ UNCHANGED <<dispatchVars, predictVars, convertVars,
                 serverVars>>

\* lines 67-74: __aenter__ returned or raised; then list_tools() is called
\* on what mcp_client holds now.  A client that was closed while it was
\* entering may end up open or closed.
ConnectEntered(c) ==
    /\ PredictYields
    /\ cpc[c] = "entering"
    /\ UNCHANGED <<cpath, covl>>
    /\ \/ \E st \in {"open"} \cup
                    (IF conns[ctarget[c]].st = "closed" THEN {"closed"} ELSE {}) :
            LET cns == SetConn(conns, ctarget[c], st) IN
            IF mcp_client = None
            THEN ConnectExcept(c, mcp_client, mcp_tools, cns)
            ELSE CStep(c, mcp_client, mcp_tools, cns, "listing", mcp_client,
                       cown[c], "")
       \/ ConnectExcept(c, mcp_client, mcp_tools,
                        SetConn(conns, ctarget[c], "closed"))
    /\ UNCHANGED <<dispatchVars, predictVars, convertVars,
                 serverVars>>

\* lines 74-84: list_tools() returned or raised; it raises on a client that
\* is not connected.
ConnectListed(c) ==
    /\ PredictYields
    /\ cpc[c] = "listing"
    /\ UNCHANGED <<cpath, covl>>
    /\ \/ /\ conns[ctarget[c]].st = "open"
          /\ CStep(c, mcp_client,
                   ConvertAll(ProviderTools(conns[ctarget[c]].path)),
                   conns, "idle", None, cown[c], "ok")
       \/ ConnectExcept(c, mcp_client, mcp_tools, conns)
    /\ UNCHANGED <<dispatchVars, predictVars, convertVars,
                 serverVars>>

\* lines 88-93: __aexit__ returned, or raised and was swallowed (the
\* connection may then stay as it was).
ConnectExited(c) ==
    /\ PredictYields
    /\ cpc[c] = "exiting"
    /\ UNCHANGED <<cpath, covl>>
    /\ \E st \in {conns[ctarget[c]].st, "closed"} :
          CStep(c, None, << >>, SetConn(conns, ctarget[c], st), "idle", None,
                cown[c], "fail")
    /\ UNCHANGED <<dispatchVars, predictVars, convertVars,
                 serverVars>>


\* ------------------------------------------------------ handle_tool_calls
\* Strings are sequences of pieces, so that + and str() are concatenation.
NoImage == [data |-> 0, mime_type |-> ""]
NotConnectedText == <<"MCP server is not connected">>
ToolErrorPrefix == "tool execution error: "

\* lines 272-277 and 344-349: an error result; lines 335-339: a result.
ErrorResult(id, content) ==
    [type |-> "tool_result", tool_use_id |-> id, content |-> content,
     is_error |-> TRUE]
ToolResult(id, content) ==
    [type |-> "tool_result", tool_use_id |-> id, content |-> content]

TextItem(t) == [type |-> "text", text |-> t]
ImageItem(d, m) == [type |-> "image", data |-> d, mimeType |-> m]

\* lines 306-322: one pass over the items of a list result.  Every image
\* item with a data attribute assigns image_data.
RECURSIVE NormalizeItems(_, _, _)
NormalizeItems(items, content, img) ==
    IF items = << >> THEN [content |-> content, image |-> img]
    ELSE LET item == Head(items) IN
         NormalizeItems(Tail(items),
            IF item.type = "text" THEN content \o <<item.text, "\n">>
            ELSE content,
            IF item.type = "image" /\ item.data # 0
            THEN [data |-> item.data,
                  mime_type |-> IF item.mimeType = NoAttr THEN "image/jpeg"
                                ELSE item.mimeType]
            ELSE img)

\* lines 301-333: result_content and image_data after one provider result.
NormalizeResult(result, img) ==
    CASE result.shape = "list" -> NormalizeItems(result.items, << >>, img)
      [] result.shape = "text" -> [content |-> <<result.text>>, image |-> img]
      [] OTHER -> [content |-> <<"str(result)">>, image |-> img]

\* The results a provider call answers with; the image payload is the id of
\* the call, so that every image is told apart, and the second image of a
\* result has SecondImage added to it.
SecondImage == 100
ProviderResults(id) ==
    {[shape |-> "list", items |-> <<TextItem("made")>>],
     [shape |-> "list", items |-> <<TextItem("made"), ImageItem(id, "image/png")>>],
     [shape |-> "list",
      items |-> <<ImageItem(id, "image/png"), TextItem("made two"),
                  ImageItem(id + SecondImage, NoAttr)>>]}

NoReturn == [isList |-> TRUE, list |-> << >>, image |-> NoImage]

Batch == response.blocks
BatchId(i) == Batch[i].id

\* lines 271-279
HCheck ==
    /\ ppc = "DispatchingTools"
    /\ hpc = "check"
    /\ IF mcp_client = None
       THEN IF Batch = << >>
            THEN hpc' = "raised" /\ UNCHANGED hret
            ELSE /\ hpc' = "ret"
                 /\ hret' = [isList |-> FALSE,
                             list |-> <<ErrorResult(BatchId(1), NotConnectedText)>>,
                             image |-> NoImage]
       ELSE hpc' = "loop" /\ UNCHANGED hret
    /\ UNCHANGED <<k, results, image_data, htarget, invoked, failed>>
    /\ UNCHANGED <<sessionVars, connectVars, predictVars, convertVars,
                 serverVars>>

\* The loop without its try/except: the exception leaves handle_tool_calls.
CallRaisedLeaves(detail) ==
    /\ hpc' = "raised"
    /\ UNCHANGED <<results, failed, k>>

\* lines 340-349: the except branch of one call.
CallRaised(detail) ==
    /\ results' = Append(results,
                         ErrorResult(BatchId(k), <<ToolErrorPrefix, detail>>))
    /\ failed' = failed \cup {BatchId(k)}
    /\ k' = k + 1
    /\ hpc' = "loop"

\* lines 282-295: one call up to its await.  Reading the name or parsing a
\* textual input may raise; call_tool on None raises.
HCallStart ==
    /\ ppc = "DispatchingTools"
    /\ hpc = "loop"
    /\ k <= Len(Batch)
    /\ \/ CallRaised("bad input") /\ UNCHANGED <<htarget, invoked>>
       \/ IF mcp_client = None
          THEN CallRaised("no client") /\ UNCHANGED <<htarget, invoked>>
          ELSE /\ htarget' = mcp_client
               /\ invoked' = invoked \cup {BatchId(k)}
               /\ hpc' = "await"
               /\ UNCHANGED <<k, results, failed>>
    /\ UNCHANGED <<image_data, hret>>
    /\ UNCHANGED <<sessionVars, connectVars, predictVars, convertVars,
                 serverVars>>

\* lines 295-349: call_tool returned or raised; it raises on a client that
\* is not connected.
HCallReturn ==
    /\ ppc = "DispatchingTools"
    /\ hpc = "await"
    /\ \/ /\ conns[htarget].st = "open"
          /\ \E result \in ProviderResults(BatchId(k)) :
                LET n == NormalizeResult(result, image_data) IN
                /\ results' = Append(results, ToolResult(BatchId(k), n.content))
                /\ image_data' = n.image
          /\ k' = k + 1
          /\ hpc' = "loop"
          /\ UNCHANGED failed
       \/ CallRaised("provider failed") /\ UNCHANGED image_data
    /\ UNCHANGED <<htarget, hret, invoked>>
    /\ UNCHANGED <<sessionVars, connectVars, predictVars, convertVars,
                 serverVars>>

\* line 352
HReturn ==
    /\ ppc = "DispatchingTools"
    /\ hpc = "loop"
    /\ k > Len(Batch)
    /\ hret' = [isList |-> Len(results) # 1, list |-> results,
                image |-> image_data]
    /\ hpc' = "ret"
    /\ UNCHANGED <<k, results, image_data, htarget, invoked, failed>>
    /\ UNCHANGED <<sessionVars, connectVars, predictVars, convertVars,
                 serverVars>>


\* ---------------------------------------------------------------- predict
Messages == {"", " ", "hello"}
Histories == {<<[human |-> "earlier", assistant |-> "answer"]>>}
StopReasons == {"tool_use", "end_turn", NoAttr}
ToolMarker == "[using tool]"

\* A message whose content is a plain string.
TextMessage(role, text) == [role |-> role, content |-> <<[type |-> "str", text |-> text]>>]

RECURSIVE HistoryMessages(_)
\* lines 375-378
HistoryMessages(history) ==
    IF history = << >> THEN << >>
    ELSE <<TextMessage("user", Head(history).human),
           TextMessage("assistant", Head(history).assistant)>>
         \o HistoryMessages(Tail(history))

\* The tool-use blocks of the r-th response: ids are unique in a conversation.
ToolUseBlocks(r, n) ==
    [i \in 1..n |-> [type |-> "tool_use", id |-> (r - 1) * MaxBatch + i]]

Response(t, blocks, sr) == [text |-> t, blocks |-> blocks, stop_reason |-> sr]

\* The responses the chat model may give to the r-th call.  It requests tools
\* only when the request offered some, and the last call that the bound
\* allows is answered without tool use.
Responses(r) ==
    {Response("fine", << >>, "end_turn"),
     Response("", << >>, "tool_use"),
     Response("fine", << >>, NoAttr)}
    \cup (IF api_tools = << >> \/ r >= MaxRounds THEN {}
          ELSE {Response("", ToolUseBlocks(r, 1), "tool_use"),
                Response("fine", ToolUseBlocks(r, MaxBatch), "tool_use"),
                Response("fine", ToolUseBlocks(r, 1), "end_turn"),
                Response("", ToolUseBlocks(r, MaxBatch), NoAttr)})

NoResponse == [text |-> "", blocks |-> << >>, stop_reason |-> NoAttr]

\* Line 426 without its first test.
TerminalByStopReason(resp) == resp.stop_reason # "tool_use"

\* Line 426 with its first test alone.
TerminalByBlocks(resp) == resp.blocks = << >>

\* Line 426 with a cap of two iterations added.
TerminalOrCapped(resp) ==
    resp.blocks = << >> \/ resp.stop_reason # "tool_use" \/ rounds >= 2

\* line 426
Terminal(resp) == resp.blocks = << >> \/ resp.stop_reason # "tool_use"

\* Lines 375-398 without the test of lines 371-372.
PredictStartUnchecked(message, history) ==
    /\ ppc = "idle"
    /\ ppc' = "AwaitingModel"
    /\ messages' = Append(HistoryMessages(history),
                          TextMessage("user", message))
    /\ api_tools' = IF mcp_client # None /\ mcp_tools # << >>
                    THEN mcp_tools ELSE << >>
    /\ UNCHANGED <<pret, full_response, final_image, response, rounds>>
    /\ UNCHANGED <<sessionVars, connectVars, dispatchVars, convertVars,
                 serverVars>>

\* lines 370-398
PredictStart(message, history) ==
    /\ ppc = "idle"
    /\ IF message \in {"", " "}
       THEN /\ ppc' = "Done"
            /\ pret' = [text |-> <<"enter a message">>, image |-> NoImage]
            /\ UNCHANGED <<messages, api_tools>>
       ELSE /\ ppc' = "AwaitingModel"
            /\ messages' = Append(HistoryMessages(history),
                                  TextMessage("user", message))
            /\ api_tools' = IF mcp_client # None /\ mcp_tools # << >>
                            THEN mcp_tools ELSE << >>
            /\ UNCHANGED pret
    /\ UNCHANGED <<full_response, final_image, response, rounds>>
    /\ UNCHANGED <<sessionVars, connectVars, dispatchVars, convertVars,
                 serverVars>>

\* Lines 406-475 with the session reset when the model call fails.
ModelCallDropsSession ==
    /\ ppc = "AwaitingModel"
    /\ rounds < MaxRounds
    /\ rounds' = rounds + 1
    /\ \/ /\ \E resp \in Responses(rounds + 1) :
               /\ response' = resp
               /\ full_response' = IF resp.text # ""
                                   THEN full_response \o <<resp.text>>
                                   ELSE full_response
          /\ ppc' = "ModelResponded"
          /\ UNCHANGED <<pret, sessionVars>>
       \/ /\ ppc' = "Done"
          /\ pret' = [text |-> <<"API error: ", "model failed">>, image |-> NoImage]
          /\ mcp_client' = None
          /\ mcp_tools' = << >>
          /\ UNCHANGED <<response, full_response, conns>>
    /\ UNCHANGED <<messages, api_tools, final_image>>
    /\ UNCHANGED <<connectVars, dispatchVars, convertVars,
                 serverVars>>

\* Lines 406-475 with a failed model call tried again instead of returned.
ModelCallRetries ==
    /\ ppc = "AwaitingModel"
    /\ rounds < MaxRounds
    /\ rounds' = rounds + 1
    /\ \/ /\ \E resp \in Responses(rounds + 1) :
               /\ response' = resp
               /\ full_response' = IF resp.text # ""
                                   THEN full_response \o <<resp.text>>
                                   ELSE full_response
          /\ ppc' = "ModelResponded"
       \/ UNCHANGED <<ppc, response, full_response>>
    /\ UNCHANGED <<messages, api_tools, final_image, pret>>
    /\ UNCHANGED <<sessionVars, connectVars, dispatchVars, convertVars,
                 serverVars>>

\* lines 406-423 and 473-475: the model call returns a response, whose text
\* is added to full_response, or raises.
ModelCall ==
    /\ ppc = "AwaitingModel"
    /\ rounds < MaxRounds
    /\ rounds' = rounds + 1
    /\ \/ /\ \E resp \in Responses(rounds + 1) :
               /\ response' = resp
               /\ full_response' = IF resp.text # ""
                                   THEN full_response \o <<resp.text>>
                                   ELSE full_response
          /\ ppc' = "ModelResponded"
          /\ UNCHANGED pret
       \/ /\ ppc' = "Done"
          /\ pret' = [text |-> <<"API error: ", "model failed">>, image |-> NoImage]
          /\ UNCHANGED <<response, full_response>>
    /\ UNCHANGED <<messages, api_tools, final_image>>
    /\ UNCHANGED <<sessionVars, connectVars, dispatchVars, convertVars,
                 serverVars>>

\* lines 426-429
PredictFinish ==
    /\ ppc = "ModelResponded"
    /\ Terminal(response)
    /\ ppc' = "Done"
    /\ pret' = [text |-> full_response, image |-> final_image]
    /\ UNCHANGED <<messages, api_tools, full_response, final_image, response,
                   rounds>>
    /\ UNCHANGED <<sessionVars, connectVars, dispatchVars, convertVars,
                 serverVars>>

\* lines 431-434: handle_tool_calls is called with the tool-use blocks.
DispatchBegin ==
    /\ ppc = "ModelResponded"
    /\ ~Terminal(response)
    /\ ppc' = "DispatchingTools"
    /\ hpc' = "check"
    /\ UNCHANGED <<k, results, image_data, htarget, hret, invoked, failed>>
    /\ UNCHANGED <<messages, api_tools, full_response, final_image, response,
                   pret, rounds>>
    /\ UNCHANGED <<sessionVars, connectVars, convertVars,
                 serverVars>>

\* lines 441-454: the assistant message.
ToolUseMessage(resp) ==
    [role |-> "assistant",
     content |-> (IF resp.text # "" THEN <<[type |-> "text", text |-> resp.text]>>
                  ELSE << >>) \o resp.blocks]

\* lines 457-458
AsList(ret) == ret.list

RECURSIVE ResultMessages(_)
\* lines 461-465: one user message for each result.
ResultMessages(tool_results) ==
    IF tool_results = << >> THEN << >>
    ELSE <<[role |-> "user", content |-> <<Head(tool_results)>>]>>
         \o ResultMessages(Tail(tool_results))

\* Lines 434-471 with the assistant message written over the last message.
PredictAppendEdits ==
    /\ ppc = "DispatchingTools"
    /\ hpc = "ret"
    /\ final_image' = IF hret.image # NoImage THEN hret.image ELSE final_image
    /\ messages' = [messages EXCEPT ![Len(messages)] = ToolUseMessage(response)]
                   \o ResultMessages(AsList(hret))
    /\ full_response' = full_response \o <<ToolMarker>>
    /\ ppc' = "AwaitingModel"
    /\ hpc' = "idle"
    /\ k' = 1
    /\ results' = << >>
    /\ image_data' = NoImage
    /\ htarget' = None
    /\ hret' = NoReturn
    /\ invoked' = {}
    /\ failed' = {}
    /\ UNCHANGED <<api_tools, response, pret, rounds>>
    /\ UNCHANGED <<sessionVars, connectVars, convertVars,
                 serverVars>>

\* Lines 434-471 with final_image assigned without the test of line 437.
PredictAppendOverwrites ==
    /\ ppc = "DispatchingTools"
    /\ hpc = "ret"
    /\ final_image' = hret.image
    /\ messages' = Append(messages, ToolUseMessage(response))
                   \o ResultMessages(AsList(hret))
    /\ full_response' = full_response \o <<ToolMarker>>
    /\ ppc' = "AwaitingModel"
    /\ hpc' = "idle"
    /\ k' = 1
    /\ results' = << >>
    /\ image_data' = NoImage
    /\ htarget' = None
    /\ hret' = NoReturn
    /\ invoked' = {}
    /\ failed' = {}
    /\ UNCHANGED <<api_tools, response, pret, rounds>>
    /\ UNCHANGED <<sessionVars, connectVars, convertVars,
                 serverVars>>

\* lines 434-471: handle_tool_calls returned; its locals are gone.
PredictAppend ==
    /\ ppc = "DispatchingTools"
    /\ hpc = "ret"
    /\ final_image' = IF hret.image # NoImage THEN hret.image ELSE final_image
    /\ messages' = Append(messages, ToolUseMessage(response))
                   \o ResultMessages(AsList(hret))
    /\ full_response' = full_response \o <<ToolMarker>>
    /\ ppc' = "AwaitingModel"
    /\ hpc' = "idle"
    /\ k' = 1
    /\ results' = << >>
    /\ image_data' = NoImage
    /\ htarget' = None
    /\ hret' = NoReturn
    /\ invoked' = {}
    /\ failed' = {}
    /\ UNCHANGED <<api_tools, response, pret, rounds>>
    /\ UNCHANGED <<sessionVars, connectVars, convertVars,
                 serverVars>>

\* ------------------------------------------ mcp-server: generate_image
\* Strings are sequences of pieces.  No piece is a prefix of another, so two
\* strings are equal exactly when their sequences are.
PathPieces == {"/", ".", "out", "jpg", "JPG", "png"}
Paths == UNION {[1..n -> PathPieces] : n \in 0..MaxPath}

\* str.lower()
LowerPiece(p) == IF p = "JPG" THEN "jpg" ELSE p
Lower(s) == [i \in 1..Len(s) |-> LowerPiece(s[i])]

\* str.strip('.')
RECURSIVE LStrip(_)
LStrip(s) == IF s # << >> /\ Head(s) = "." THEN LStrip(Tail(s)) ELSE s
RECURSIVE RStrip(_)
RStrip(s) ==
    IF s # << >> /\ s[Len(s)] = "." THEN RStrip(SubSeq(s, 1, Len(s) - 1))
    ELSE s
Strip(s) == RStrip(LStrip(s))

\* str.rfind(ch), counting from 1; 0 when ch does not occur.
RFind(s, ch) ==
    LET at == {i \in 1..Len(s) : s[i] = ch} IN
    IF at = {} THEN 0 ELSE CHOOSE i \in at : \A j \in at : j <= i

\* os.path.splitext(p): <<root, ext>>.  The extension starts at the last dot
\* of the last component, unless that component has only dots before it.
splitext(p) ==
    LET sepIndex == RFind(p, "/")
        dotIndex == RFind(p, ".") IN
    IF dotIndex > sepIndex /\ \E i \in (sepIndex + 1)..(dotIndex - 1) : p[i] # "."
    THEN <<SubSeq(p, 1, dotIndex - 1), SubSeq(p, dotIndex, Len(p))>>
    ELSE <<p, << >> >>

\* lines 72-78: mime_type is the first component of splitext's result.
MimeType(image_path) ==
    LET mime_type == splitext(image_path)[1] IN
    IF mime_type = << >> THEN <<"image/", "jpeg">>
    ELSE LET named == <<"image/">> \o Lower(Strip(mime_type)) IN
         IF named = <<"image/", "jpg">> THEN <<"image/", "jpeg">> ELSE named

\* line 83: base64.b64encode(...).decode("utf-8")
Base64(bytes) == [base64 |-> bytes]

TextContent(text) == [type |-> "text", text |-> text]
ImageContent(data, mimeType) ==
    [type |-> "image", data |-> data, mimeType |-> mimeType]

\* line 51
ResponseText(prompt) == <<"'", prompt, "' image request 256x256 1.6B">>
GenerationDone == "\ngeneration done, seconds: "
GenerationFailed == "\ngeneration failed: "
UnpackError == <<"wrong number of values to unpack">>

\* What the image service does for one call (lines 55-66): creating the
\* client raises, predict raises, or predict returns a value; and what
\* open() and read() of line 81 do.
GradioClient == 1      \* the client of line 24, as opposed to None
Prompts == {"cat"}
Elapsed == {"0.42"}
Errors == {<<"connection refused">>}
NoFile == [ok |-> FALSE, data |-> << >>, err |-> <<"no such file">>]
Files == {NoFile, [ok |-> TRUE, data |-> <<"bytes">>, err |-> << >>]}
CanOpen(path) ==
    /\ path # << >>
    /\ path[Len(path)] # "/"
    /\ SubSeq(path, RFind(path, "/") + 1, Len(path)) \notin {<<".">>, <<".", ".">>}
Raises(kind, e) == [kind |-> kind, value |-> << >>, err |-> e]
Returns(value) == [kind |-> "result", value |-> value, err |-> << >>]
ServerInputs ==
    {[prompt |-> q, remote |-> r, file |-> NoFile, elapsed |-> t] :
        q \in Prompts, t \in Elapsed,
        r \in {Raises(kd, e) : kd \in {"init_raises", "predict_raises"},
                               e \in Errors}
              \cup {Returns(<<path>>) : path \in {<<"/", "out", ".", "png">>}}}
    \cup
    {in \in [prompt : Prompts, elapsed : Elapsed, file : Files,
             remote : {Returns(<<path, "seed">>) : path \in Paths}] :
        in.file.ok => CanOpen(in.remote.value[1])}

\* lines 20-25
get_gradio_client(client, remote) ==
    IF client # None THEN client
    ELSE IF remote.kind = "init_raises" THEN None
    ELSE GradioClient

\* lines 27-97
generate_image(prompt, remote, file, elapsed) ==
    LET response_text == ResponseText(prompt)
        Failure(e) ==
            <<TextContent(response_text \o <<GenerationFailed>> \o e)>>
    IN
    IF remote.kind # "result" THEN Failure(remote.err)
    ELSE IF Len(remote.value) # 2 THEN Failure(UnpackError)
    ELSE LET image_path == remote.value[1]
             mime_type == MimeType(image_path) IN
         IF ~file.ok THEN Failure(file.err)
         ELSE <<TextContent(response_text \o <<GenerationDone, elapsed>>),
                ImageContent(Base64(file.data), mime_type)>>

\* One call of the tool.
GenerateImage ==
    /\ gi_out = << >>
    /\ gradio_client' = get_gradio_client(gradio_client, gi_in.remote)
    /\ gi_out' = generate_image(gi_in.prompt, gi_in.remote, gi_in.file,
                                gi_in.elapsed)
    /\ UNCHANGED gi_in
    /\ UNCHANGED <<sessionVars, connectVars, dispatchVars, predictVars,
                   convertVars>>

\* ---------------------------------------------------------- specification
InitSession ==
    /\ mcp_client = None
    /\ mcp_tools = << >>
    /\ conns = << >>
    /\ cpc = [c \in Procs |-> "idle"]
    /\ cpath = [c \in Procs |-> ""]
    /\ ctarget = [c \in Procs |-> None]
    /\ cown = [c \in Procs |-> None]
    /\ covl = [c \in Procs |-> FALSE]
    /\ cret = [c \in Procs |->
                 [msg |-> "", path |-> "", connected |-> FALSE, ntools |-> 0]]
    /\ connHist = << >>

InitPredict ==
    /\ ppc = "idle"
    /\ hpc = "idle"
    /\ messages = << >>
    /\ api_tools = << >>
    /\ full_response = << >>
    /\ final_image = NoImage
    /\ response = NoResponse
    /\ k = 1
    /\ results = << >>
    /\ image_data = NoImage
    /\ htarget = None
    /\ hret = NoReturn
    /\ pret = [text |-> << >>, image |-> NoImage]
    /\ rounds = 0
    /\ invoked = {}
    /\ failed = {}

\* The provider's tool has run once, on a path the image service returns.
InitServerDone ==
    /\ gradio_client = GradioClient
    /\ gi_in = [prompt |-> "cat", elapsed |-> "0.42",
                remote |-> Returns(<<<<"/", "out", ".", "png">>, "seed">>),
                file |-> [ok |-> TRUE, data |-> <<"bytes">>, err |-> << >>]]
    /\ gi_out = generate_image(gi_in.prompt, gi_in.remote, gi_in.file,
                               gi_in.elapsed)

Init ==
    /\ InitSession
    /\ InitPredict
    /\ cv_in = GenerateImageTool
    /\ cv_out = convert_mcp_tool_to_claude_format(GenerateImageTool)
    /\ cv_after = DescriptorAfter(GenerateImageTool)
    /\ cv_again = convert_mcp_tool_to_claude_format(cv_after)
    /\ InitServerDone

Next ==
    \/ \E c \in Procs, server_path \in ServerPaths : ConnectBegin(c, server_path)
    \/ \E c \in Procs : ConnectClosed(c)
    \/ \E c \in Procs : ConnectEntered(c)
    \/ \E c \in Procs : ConnectListed(c)
    \/ \E c \in Procs : ConnectExited(c)
    \/ \E message \in Messages, history \in Histories :
          PredictStart(message, history)
    \/ ModelCall
    \/ PredictFinish
    \/ DispatchBegin
    \/ HCheck
    \/ HCallStart
    \/ HCallReturn
    \/ HReturn
    \/ PredictAppend

Spec == Init /\ [][Next]_vars

\* The connect handler run one invocation at a time.
ConnectBeginAlone(c, server_path) ==
    /\ InProgress = {}
    /\ ConnectBegin(c, server_path)

NextSeq ==
    \/ \E c \in Procs, server_path \in ServerPaths :
          ConnectBeginAlone(c, server_path)
    \/ \E c \in Procs : ConnectClosed(c)
    \/ \E c \in Procs : ConnectEntered(c)
    \/ \E c \in Procs : ConnectListed(c)
    \/ \E c \in Procs : ConnectExited(c)
    \/ \E message \in Messages, history \in Histories :
          PredictStart(message, history)
    \/ ModelCall
    \/ PredictFinish
    \/ DispatchBegin
    \/ HCheck
    \/ HCallStart
    \/ HCallReturn
    \/ HReturn
    \/ PredictAppend

SpecSeq == Init /\ [][NextSeq]_vars

\* The steps of predict and of the handle_tool_calls it awaits.
PredictNext ==
    \/ ModelCall
    \/ PredictFinish
    \/ DispatchBegin
    \/ HCheck
    \/ HCallStart
    \/ HCallReturn
    \/ HReturn
    \/ PredictAppend

\* The event loop resumes predict whenever it can run, and every model call
\* and every provider call returns or raises.
SpecLive == Init /\ [][NextSeq]_vars /\ WF_vars(PredictNext)

\* The translator on its own: a descriptor is drawn and translated.
Translate ==
    /\ cv_out = [exception |-> "not run"]
    /\ cv_out' = convert_mcp_tool_to_claude_format(cv_in)
    /\ cv_after' = DescriptorAfter(cv_in)
    /\ UNCHANGED <<cv_in, cv_again>>
    /\ UNCHANGED <<sessionVars, connectVars, dispatchVars, predictVars,
                 serverVars>>

\* The same descriptor object is translated once more.
TranslateAgain ==
    /\ cv_out # [exception |-> "not run"]
    /\ cv_again = [exception |-> "not run"]
    /\ cv_again' = convert_mcp_tool_to_claude_format(cv_after)
    /\ cv_after' = DescriptorAfter(cv_after)
    /\ cv_out' = ResultAfter(cv_out, cv_in, DescriptorAfter(cv_after))
    /\ UNCHANGED cv_in
    /\ UNCHANGED <<sessionVars, connectVars, dispatchVars, predictVars,
                 serverVars>>

InitConvert ==
    /\ InitSession
    /\ InitPredict
    /\ InitServerDone
    /\ cv_in \in Descriptors
    /\ cv_out = [exception |-> "not run"]
    /\ cv_after = cv_in
    /\ cv_again = [exception |-> "not run"]

NextConvert ==
    \/ Translate
    \/ TranslateAgain

SpecConvert == InitConvert /\ [][NextConvert]_vars

\* generate_image run on its own, on every input of ServerInputs.
InitServer ==
    /\ InitSession
    /\ InitPredict
    /\ cv_in = GenerateImageTool
    /\ cv_out = convert_mcp_tool_to_claude_format(GenerateImageTool)
    /\ cv_after = DescriptorAfter(GenerateImageTool)
    /\ cv_again = convert_mcp_tool_to_claude_format(cv_after)
    /\ gradio_client \in {None, GradioClient}
    /\ gi_in \in ServerInputs
    /\ gi_in.remote.kind = "init_raises" => gradio_client = None
    /\ gi_out = << >>

NextServer == GenerateImage

SpecServer == InitServer /\ [][NextServer]_vars


\* ================================================================ claims
\* handle_tool_calls got past the connection check of line 271.
PastCheck ==
    /\ ppc = "DispatchingTools"
    /\ \/ hpc \in {"loop", "await"}
       \/ hpc = "ret" /\ k > Len(Batch)

\* C1 (as stated): whether or not a connection is active, handle_tool_calls
\* does not raise and returns one outcome for each request of the batch, in
\* the order of the requests: outcome i carries the tool_use_id of request i.
C1_OneOutcomePerRequest ==
    /\ hpc # "raised"
    /\ (ppc = "DispatchingTools" /\ hpc = "ret") =>
          /\ Len(hret.list) = Len(Batch)
          /\ \A i \in 1..Len(Batch) : hret.list[i].tool_use_id = BatchId(i)

\* C2, the state part: once past the connection check, handle_tool_calls
\* never raises; the calls handled so far each have their outcome, in order
\* and under their own tool_use_id; the outcome of a call that raised is an
\* error outcome whose content is the error prefix followed by the error
\* detail; a call that did not raise was invoked and has a plain outcome;
\* and at the return every call of the batch has been handled.
C2_PerCallIsolation ==
    /\ hpc # "raised"
    /\ PastCheck =>
          /\ Len(results) = k - 1
          /\ \A i \in 1..(k - 1) :
                /\ results[i].tool_use_id = BatchId(i)
                /\ BatchId(i) \in failed =>
                      /\ "is_error" \in DOMAIN results[i]
                      /\ results[i].is_error
                      /\ Len(results[i].content) = 2
                      /\ results[i].content[1] = ToolErrorPrefix
                      /\ results[i].content[2] # ""
                /\ BatchId(i) \notin failed =>
                      /\ BatchId(i) \in invoked
                      /\ "is_error" \notin DOMAIN results[i]
          /\ hpc = "ret" => k - 1 = Len(Batch) /\ hret.list = results
    /\ ppc = "AwaitingModel" => ENABLED ModelCall

\* C2, the step part: when handle_tool_calls has returned, the loop appends
\* the assistant message and the tool results and goes on to the next model
\* call.
C2_LoopGoesOn ==
    (ppc = "DispatchingTools" /\ hpc = "ret") =>
        /\ ppc' = "AwaitingModel"
        /\ Len(messages') = Len(messages) + 1 + Len(hret.list)

\* C2: with an active connection a call that raises gets an error outcome
\* of its own, its siblings are still handled, the dispatcher does not raise
\* and the loop appends the messages and calls the model again.
C2_FailureIsIsolated == []C2_PerCallIsolation /\ [][C2_LoopGoesOn]_vars

\* C2's case: a batch of two has been handled, the first call raised and the
\* second was invoked and answered.
C2_Witness ==
    /\ PastCheck
    /\ hpc = "ret"
    /\ Len(Batch) = 2
    /\ BatchId(1) \in failed
    /\ BatchId(2) \in invoked \ failed

\* C3: a response without tool-use blocks ends the loop in that iteration,
\* whatever its stop reason: the next step returns the accumulated text and
\* the current image, and it dispatches nothing, appends no message and calls
\* the model no more.
C3_NoToolUseEndsLoop ==
    [][(ppc = "ModelResponded" /\ response.blocks = << >>) =>
          /\ ppc' = "Done"
          /\ pret' = [text |-> full_response, image |-> final_image]
          /\ messages' = messages
          /\ rounds' = rounds
          /\ hpc' = hpc
          /\ invoked' = invoked]_vars

\* C3's case: the loop has returned after a response that reported
\* stop_reason tool_use and held no tool-use block.
C3_Witness ==
    /\ ppc = "Done"
    /\ rounds >= 1
    /\ response.blocks = << >>
    /\ response.stop_reason = "tool_use"
    /\ pret = [text |-> full_response, image |-> final_image]


\* The tool_use ids of message m, and the tool_use_ids of the tool results
\* in the user messages that follow it up to the next assistant message.
IdsOf(content, type) ==
    LET picked == SelectSeq(content, LAMBDA b : b.type = type) IN
    [i \in 1..Len(picked) |->
        IF type = "tool_use" THEN picked[i].id ELSE picked[i].tool_use_id]

UseIds(m) == IdsOf(messages[m].content, "tool_use")

RECURSIVE AnswerIdsFrom(_)
AnswerIdsFrom(m) ==
    IF m > Len(messages) \/ messages[m].role # "user" THEN << >>
    ELSE IdsOf(messages[m].content, "tool_result") \o AnswerIdsFrom(m + 1)

AnswerIds(m) == AnswerIdsFrom(m + 1)

\* C4 (as stated): when handle_tool_calls has returned for a batch of n
\* tool-use blocks, the loop appends exactly two messages: the assistant
\* message (the text if it is not empty, then the tool-use blocks), then one
\* user message that holds the n tool results in the order of the requests.
C4_TwoMessagesPerBatch ==
    [][(ppc = "DispatchingTools" /\ hpc = "ret") =>
          /\ Len(messages') = Len(messages) + 2
          /\ messages'[Len(messages) + 1] = ToolUseMessage(response)
          /\ messages'[Len(messages) + 2].role = "user"
          /\ IdsOf(messages'[Len(messages) + 2].content, "tool_result")
                = [i \in 1..Len(Batch) |-> BatchId(i)]]_vars

\* C5 (as stated): whenever the loop is about to call the model again, every
\* assistant message with tool-use blocks is followed at once by tool results
\* that answer exactly its tool_use ids, in the same order.
C5_ToolUsesAnswered ==
    (ppc = "AwaitingModel" /\ rounds >= 1) =>
        \A m \in 1..Len(messages) :
            messages[m].role = "assistant" => AnswerIds(m) = UseIds(m)

\* C6 (as stated): a response with at least one tool-use block never ends
\* the loop, whatever its stop reason: the next step starts the dispatcher.
C6_ToolUseAlwaysDispatches ==
    [][(ppc = "ModelResponded" /\ response.blocks # << >>) =>
          ppc' = "DispatchingTools"]_vars

\* C6, the state part of the amended claim: the dispatcher started by the
\* loop never raises and can always take its next step, and the loop that
\* waits for the model can call it.
C6_DispatchCanGoOn ==
    /\ hpc # "raised"
    /\ ppc = "DispatchingTools" =>
          ENABLED (HCheck \/ HCallStart \/ HCallReturn \/ HReturn \/ PredictAppend)
    /\ ppc = "AwaitingModel" => ENABLED ModelCall

\* C6, the step part of the amended claim.
C6_Transitions ==
    /\ (ppc = "ModelResponded" /\ response.blocks # << >>
          /\ response.stop_reason = "tool_use") =>
            /\ ppc' = "DispatchingTools"
            /\ hpc' = "check"
            /\ UNCHANGED <<messages, rounds, pret>>
    /\ (ppc = "ModelResponded" /\ response.blocks # << >>
          /\ response.stop_reason # "tool_use") =>
            /\ ppc' = "Done"
            /\ pret' = [text |-> full_response, image |-> final_image]
            /\ UNCHANGED <<messages, rounds, hpc, invoked>>
    /\ ppc = "DispatchingTools" =>
            /\ ppc' \in {"DispatchingTools", "AwaitingModel"}
            /\ rounds' = rounds
            /\ ppc' = "AwaitingModel" =>
                  /\ hpc = "ret"
                  /\ Len(messages') > Len(messages)
                  /\ messages'[Len(messages) + 1] = ToolUseMessage(response)
                  /\ \A m \in (Len(messages) + 2)..Len(messages') :
                        /\ messages'[m].role = "user"
                        /\ IdsOf(messages'[m].content, "tool_result") # << >>

\* C6 (amended): a response with at least one tool-use block and stop reason
\* tool_use does not end the loop: the dispatcher runs, the assistant message
\* and the tool results are appended and the model is called again; with any
\* other stop reason, or none, the loop ends in that iteration and returns
\* the accumulated text.
C6_ToolUseStopReasonDispatches == []C6_DispatchCanGoOn /\ [][C6_Transitions]_vars

\* C6's case: the model has answered a second call, after a dispatch whose
\* messages were appended.
C6_Witness ==
    /\ ppc = "ModelResponded"
    /\ rounds = 2
    /\ Len(messages) > 3
    /\ messages[4].role = "assistant"
    /\ UseIds(4) # << >>

AllOk == \A i \in 1..Len(connHist) : connHist[i].res = "ok"

\* C7: after connects that ran one after the other and all succeeded, two
\* or more, exactly one connection is open, it is the one the last connect
\* created and mcp_client holds it, every earlier one is closed, and
\* mcp_tools is the translation of the last provider's tool list.
C7_SecondConnectReplacesFirst ==
    (InProgress = {} /\ Len(connHist) >= 2 /\ AllOk) =>
        LET last == connHist[Len(connHist)] IN
        /\ OpenConns = {last.conn}
        /\ mcp_client = last.conn
        /\ \A i \in 1..(Len(connHist) - 1) : conns[connHist[i].conn].st = "closed"
        /\ mcp_tools = ConvertAll(ProviderTools(last.path))
        /\ conns[last.conn].path = last.path

\* C7's case: two connects to different providers have returned, both with
\* success.
C7_Witness ==
    /\ InProgress = {}
    /\ Len(connHist) = 2
    /\ AllOk
    /\ connHist[1].path = "a"
    /\ connHist[2].path = "b"
    /\ Len(mcp_tools) = 2

\* C8 (as stated): a connect that failed leaves the session disconnected
\* and no connection it opened open, and no state that another coroutine can
\* observe has mcp_client set to a client that is not connected.
C8_FailedConnectLeavesDisconnected ==
    /\ \A i \in 1..Len(connHist) :
          (connHist[i].res = "fail" /\ connHist[i].conn # None) =>
              conns[connHist[i].conn].st # "open"
    /\ (InProgress = {} /\ connHist # << >>
          /\ connHist[Len(connHist)].res = "fail") =>
              mcp_client = None /\ mcp_tools = << >>
    /\ (PredictYields /\ mcp_client # None) => conns[mcp_client].st # "new"

\* C9 (as stated): at most one connect is in progress at a time, so that
\* when the connects have returned at most one connection is open, none is
\* open without being held by mcp_client, and mcp_tools is the tool list of
\* the connection mcp_client holds.
C9_ConnectsExclusive ==
    /\ Cardinality(InProgress) <= 1
    /\ InProgress = {} =>
          /\ Cardinality(OpenConns) <= 1
          /\ OpenConns \subseteq {mcp_client}
          /\ mcp_client # None =>
                mcp_tools = ConvertAll(ProviderTools(conns[mcp_client].path))

\* The translator ran and returned a tool.
Translated == "name" \in DOMAIN cv_out

WellFormedTool ==
    /\ DOMAIN cv_out = {"name", "description", "input_schema"}
    /\ cv_out.input_schema.type = "object"

\* No source of parameter information: no structured schema, no parameter
\* list and no signature with parameters.
NoParameterInfo(tool_info) ==
    /\ SchemaOf(tool_info).tag # "dict"
    /\ ~Truthy(tool_info.parameters)
    /\ ~(tool_info.signature.tag = "sig" /\ tool_info.signature.hasParams)

EmptyParameters ==
    /\ cv_out.input_schema.properties = MapV(EmptyMap)
    /\ cv_out.input_schema.required = ListV(<< >>)

\* C10 (as stated): the translator never raises and returns name,
\* description and an input schema of type object for every descriptor;
\* without parameter information properties is {} and required is []; an
\* absent name or description becomes the empty string.
C10_TranslatorDefaultsToEmpty ==
    cv_out # [exception |-> "not run"] =>
        /\ Translated
        /\ WellFormedTool
        /\ NoParameterInfo(cv_in) => EmptyParameters
        /\ cv_in.name = NoAttr => cv_out.name = ""
        /\ cv_in.description = NoAttr => cv_out.description = ""

\* C10 (amended): as stated, but an absent name or description becomes the
\* empty string only when the translation did not fall back; when a
\* malformed field makes it fall back, an absent name becomes "unknown_tool",
\* the description is the fixed error text, properties is {} and required [].
C10_TranslatorIsTotal ==
    cv_out # [exception |-> "not run"] =>
        /\ Translated
        /\ WellFormedTool
        /\ NoParameterInfo(cv_in) => EmptyParameters
        /\ cv_in.name # NoAttr => cv_out.name = cv_in.name
        /\ IF ConvertBody(cv_in).raised
           THEN /\ cv_in.name = NoAttr => cv_out.name = "unknown_tool"
                /\ cv_out.description = "conversion error"
                /\ EmptyParameters
           ELSE /\ cv_in.name = NoAttr => cv_out.name = ""
                /\ cv_out.description =
                      (IF cv_in.description = NoAttr THEN ""
                       ELSE cv_in.description)

\* C10's case: a descriptor without a name whose parameter list is no list
\* has been translated by the fallback.
C10_Witness ==
    /\ Translated
    /\ cv_in.name = NoAttr
    /\ cv_in.parameters = [tag |-> "int"]
    /\ cv_out.name = "unknown_tool"


\* C11 (as stated): when the session holds no connection at the dispatcher's
\* connection check, the dispatcher returns at once, calls no provider, does
\* not raise, and returns for every request of the batch an error outcome
\* with the fixed not-connected text.
C11_NotConnectedAnswersAll ==
    [][(ppc = "DispatchingTools" /\ hpc = "check" /\ mcp_client = None) =>
          /\ hpc' = "ret"
          /\ invoked' = {}
          /\ hret'.list = [i \in 1..Len(Batch) |->
                              ErrorResult(BatchId(i), NotConnectedText)]]_vars


ApiErrorResult == [text |-> <<"API error: ", "model failed">>, image |-> NoImage]

\* C12: a step that issues a model call either gets a response or, when the
\* call raised, ends the turn: predict returns (it does not raise) the API
\* error text with the error detail and no image, having appended no message
\* and started no dispatch; after it has returned, it calls the model no more
\* and dispatches nothing.
C12_ModelFailureEndsTurn ==
    [][/\ rounds' # rounds =>
            /\ ppc = "AwaitingModel"
            /\ rounds' = rounds + 1
            /\ \/ ppc' = "ModelResponded" /\ pret' = pret
               \/ /\ ppc' = "Done"
                  /\ pret' = ApiErrorResult
                  /\ UNCHANGED <<messages, hpc, invoked, response>>
       /\ ppc = "Done" =>
            UNCHANGED <<ppc, pret, rounds, messages, hpc, invoked, response>>]_vars

\* C12's case: the model call of the second iteration raised, after a
\* dispatch, and predict has returned the error.
C12_Witness ==
    /\ ppc = "Done"
    /\ rounds = 2
    /\ Len(messages) > 3
    /\ pret = ApiErrorResult


PromptForInput == [text |-> <<"enter a message">>, image |-> NoImage]

\* C13, the state part: a predict that has returned without a model call
\* has returned the prompt for input with no image, with no message built
\* and no tool called.
C13_RejectedWithPrompt ==
    (ppc = "Done" /\ rounds = 0) =>
        /\ pret = PromptForInput
        /\ messages = << >>
        /\ invoked = {}
        /\ hpc = "idle"

\* C13, the step part: no loop starts on an empty or whitespace-only
\* message, and the step of predict that returns at once changes nothing of
\* the session, calls no model and no provider.
C13_RejectChangesNothing ==
    /\ (ppc = "idle" /\ ppc' = "AwaitingModel") =>
          messages'[Len(messages')].content[1].text \notin {"", " "}
    /\ (ppc = "idle" /\ ppc' = "Done") =>
          /\ pret' = PromptForInput
          /\ UNCHANGED <<sessionVars, connectVars, dispatchVars, rounds,
                         messages, api_tools, response>>

\* C13: predict called with an empty or whitespace-only message returns the
\* prompt for input and no image, without a model call or a provider call and
\* without a change of the session.
C13_BlankMessageRejected ==
    []C13_RejectedWithPrompt /\ [][C13_RejectChangesNothing]_vars

\* C13's case: predict has returned the prompt for input while the session
\* is connected with tools.
C13_Witness ==
    /\ ppc = "Done"
    /\ rounds = 0
    /\ pret = PromptForInput
    /\ mcp_client # None
    /\ mcp_tools # << >>


InLoop == ppc \in {"AwaitingModel", "ModelResponded", "DispatchingTools"}

\* C14, the step part: the loop ends only on a response that requests no
\* tool, on a failed model call or on a rejected message, whatever the number
\* of iterations; a response that requests tools starts a dispatch.
C14_EndsOnlyByAnswer ==
    /\ (ppc # "Done" /\ ppc' = "Done") =>
          \/ ppc = "idle"
          \/ ppc = "AwaitingModel" /\ pret' = ApiErrorResult
          \/ /\ ppc = "ModelResponded"
             /\ response.blocks = << >> \/ response.stop_reason # "tool_use"
    /\ (ppc = "ModelResponded" /\ response.blocks # << >>
          /\ response.stop_reason = "tool_use") => ppc' = "DispatchingTools"

\* C14, the state part: after every dispatch the loop can call the model
\* again, at every iteration.
C14_CanCallAgain ==
    (ppc = "AwaitingModel" /\ rounds < MaxRounds) => ENABLED ModelCall

\* C14: the loop runs until the model stops requesting tools and has no
\* cap on its iterations; when every provider call returns or raises and the
\* model ends up answering without tool use, or a model call fails, the loop
\* reaches Done.
C14_RunsUntilModelStops ==
    /\ [][C14_EndsOnlyByAnswer]_vars
    /\ []C14_CanCallAgain
    /\ InLoop ~> (ppc = "Done")

\* C14's case: the loop has gone through every iteration the bound allows,
\* with a dispatch in each but the last, and has returned.
C14_Witness ==
    /\ ppc = "Done"
    /\ rounds = MaxRounds
    /\ Len(SelectSeq(messages, LAMBDA m : m.role = "assistant"
                                          /\ m.content[1].type # "str"))
          = MaxRounds - 1
    /\ pret.text # ApiErrorResult.text


EmptySt == [props |-> MapV(EmptyMap), req |-> ListV(<< >>), raised |-> FALSE]

\* A structured schema is present: a dict with a properties or a required key.
SchemaPresent(tool_info) ==
    LET input_schema == SchemaOf(tool_info) IN
    input_schema.tag = "dict" /\ (input_schema.hasProps \/ input_schema.hasReq)

\* properties and required when the first source that is present supplies
\* both of them: the schema, else the parameter list, else the signature.
ExpectedBySource(tool_info) ==
    IF SchemaPresent(tool_info)
    THEN [props |-> SchemaProps(tool_info), req |-> SchemaRequired(tool_info)]
    ELSE IF Truthy(tool_info.parameters) /\ tool_info.parameters.tag = "list"
    THEN LET st == ParamLoop(tool_info.parameters.l, 1, EmptySt) IN
         [props |-> st.props, req |-> st.req]
    ELSE IF tool_info.signature.tag = "sig" /\ tool_info.signature.hasParams
    THEN LET st == SigLoop(tool_info.signature.params, 1, EmptySt) IN
         [props |-> st.props, req |-> st.req]
    ELSE [props |-> MapV(EmptyMap), req |-> ListV(<< >>)]

\* C15 (as stated): when the translation succeeds, properties and required
\* both come from the first source that is present (the structured schema,
\* else the parameter list, else the signature), and the later sources add
\* nothing to either.
C15_FirstSourceWins ==
    (Translated /\ ~ConvertBody(cv_in).raised) =>
        /\ cv_out.input_schema.properties = ExpectedBySource(cv_in).props
        /\ cv_out.input_schema.required = ExpectedBySource(cv_in).req

\* C16 (as stated): the translation leaves the descriptor it is given as it
\* was, its schema's properties and required included, and the same
\* descriptor translated once more gives an equal tool.
C16_TranslationIsPure ==
    Translated =>
        /\ cv_after = cv_in
        /\ "name" \in DOMAIN cv_again => cv_again = cv_out


\* The image kept after a list result when only its first image item with a
\* payload counts.
RECURSIVE FirstImage(_, _)
FirstImage(items, img) ==
    IF items = << >> THEN img
    ELSE IF Head(items).type = "image" /\ Head(items).data # 0
    THEN [data |-> Head(items).data,
          mime_type |-> IF Head(items).mimeType = NoAttr THEN "image/jpeg"
                        ELSE Head(items).mimeType]
    ELSE FirstImage(Tail(items), img)

\* C17 (as stated): when a provider call returns a list of content items,
\* the dispatcher keeps as the image the payload of the first image item of
\* that list and drops the later image items of the same list.
C17_FirstImageKept ==
    [][(ppc = "DispatchingTools" /\ hpc = "await" /\ Len(results') > Len(results)
          /\ BatchId(k) \notin failed') =>
          \E result \in ProviderResults(BatchId(k)) :
              /\ results'[Len(results')].content
                    = NormalizeResult(result, image_data).content
              /\ image_data' = FirstImage(result.items, image_data)]_vars


\* C18, the state part: before the first dispatch cycle has ended the loop
\* has no image.
C18_NoImageAtFirst ==
    (\/ ppc = "idle"
     \/ ppc = "AwaitingModel" /\ rounds = 0
     \/ ppc \in {"ModelResponded", "DispatchingTools"} /\ rounds = 1)
        => final_image = NoImage

\* C18, the step part: at the end of a dispatch cycle the loop's image
\* becomes the image of that cycle when it produced one and stays as it was
\* when it produced none; no other step changes it; and the step that ends
\* the loop on a response without tool calls returns it with the text.
C18_ImageFollowsCycles ==
    /\ IF ppc = "DispatchingTools" /\ hpc = "ret"
       THEN final_image' = (IF hret.image # NoImage THEN hret.image
                            ELSE final_image)
       ELSE final_image' = final_image
    /\ (ppc = "ModelResponded" /\ response.blocks = << >>) =>
          /\ ppc' = "Done"
          /\ pret' = [text |-> full_response, image |-> final_image]

\* C18: the loop's image is always that of the most recent dispatch cycle
\* that produced one, and the loop that ends on a response without tool calls
\* returns it with the text, or no image when no cycle produced one.
C18_LatestImageReturned ==
    []C18_NoImageAtFirst /\ [][C18_ImageFollowsCycles]_vars

\* C18's case: the loop has returned after two dispatch cycles the image of
\* the first, the second having produced none.
C18_Witness ==
    /\ ppc = "Done"
    /\ rounds = 3
    /\ response.blocks = << >>
    /\ pret.image # NoImage
    /\ pret.image.data \in 1..MaxBatch
    /\ pret.text = full_response


\* C19 (as stated): every model call carries the session's tool list exactly
\* when, at the time of the call, the session holds a connection and a tool
\* list that is not empty, also after the session was reconnected or torn
\* down between two iterations.
C19_ToolsFollowSession ==
    ppc = "AwaitingModel" =>
        api_tools = (IF mcp_client # None /\ mcp_tools # << >>
                     THEN mcp_tools ELSE << >>)


\* The message list predict builds from a history and a new message: the
\* pairs of the history as user and assistant messages, in order, and the
\* new user message last.
StartsFrom(msgs, history, message) ==
    /\ Len(msgs) = 2 * Len(history) + 1
    /\ \A i \in 1..Len(history) :
          /\ msgs[2 * i - 1] = [role |-> "user",
                content |-> <<[type |-> "str", text |-> history[i].human]>>]
          /\ msgs[2 * i] = [role |-> "assistant",
                content |-> <<[type |-> "str", text |-> history[i].assistant]>>]
    /\ msgs[Len(msgs)] = [role |-> "user",
                          content |-> <<[type |-> "str", text |-> message]>>]

\* C20: the message list of a loop starts as the history pairs followed by
\* the new user message, and from then on every step leaves it as it is or
\* appends to it: its length never decreases and what each model call is
\* given begins with what the call before it was given.
C20_MessagesAppendOnly ==
    [][/\ (ppc = "idle" /\ ppc' = "AwaitingModel") =>
            \E history \in Histories, message \in Messages :
                StartsFrom(messages', history, message)
       /\ ppc # "idle" =>
            /\ Len(messages') >= Len(messages)
            /\ SubSeq(messages', 1, Len(messages)) = messages]_vars

\* C20's case: two dispatch cycles have appended their messages and the
\* third model call is about to be issued.
C20_Witness ==
    /\ ppc = "AwaitingModel"
    /\ rounds = 2
    /\ Len(messages) >= 7
    /\ \E history \in Histories, message \in Messages :
          StartsFrom(SubSeq(messages, 1, 2 * Len(history) + 1), history, message)


\* C21: every step of predict and of handle_tool_calls, whether it returns,
\* handles a tool failure or a model failure, leaves mcp_client and mcp_tools
\* as they were; only the steps of connect_to_mcp_server change them.
C21_LoopLeavesSession ==
    [][(predictVars' # predictVars \/ dispatchVars' # dispatchVars) =>
          UNCHANGED <<mcp_client, mcp_tools>>]_vars

\* C21's case: on a connected session with tools, predict has gone through
\* a dispatch and then returned on a failed model call.
C21_Witness ==
    /\ ppc = "Done"
    /\ rounds >= 2
    /\ pret = ApiErrorResult
    /\ mcp_client # None
    /\ mcp_tools # << >>


\* C22 (as stated): in every reachable state, however connects and loop
\* runs interleave, mcp_client = None implies that mcp_tools is empty, and a
\* mcp_tools that is not empty is the translation of the tool list of the
\* connection that mcp_client holds.
C22_ToolsBelongToClient ==
    /\ mcp_client = None => mcp_tools = << >>
    /\ mcp_tools # << >> =>
          /\ mcp_client # None
          /\ mcp_tools = ConvertAll(ProviderTools(conns[mcp_client].path))


\* A connect returns in this step, it was called with a blank path, and the
\* connect before it had succeeded: a connection was active when it began.
BlankConnectReturns ==
    /\ Len(connHist) >= 1
    /\ Len(connHist') = Len(connHist) + 1
    /\ connHist[Len(connHist)].res = "ok"
    /\ IsBlank(connHist'[Len(connHist')].path)

\* C23 (as stated): a connect called with a blank path while a connection
\* is active closes that connection, clears mcp_tools, and returns the
\* enter-a-path message with the not-connected status, having opened no
\* connection; after it the session is disconnected.
C23_BlankPathDisconnects ==
    [][BlankConnectReturns =>
         LET new == connHist'[Len(connHist')]
             old == connHist[Len(connHist)] IN
         /\ new.res = "nopath"
         /\ cret'[new.proc] = [msg |-> "nopath", path |-> new.path,
                               connected |-> FALSE, ntools |-> 0]
         /\ conns'[old.conn].st = "closed"
         /\ new.conn = None /\ Len(conns') = Len(conns)
         /\ mcp_client' = None /\ mcp_tools' = << >>]_vars

\* C23 (amended): such a connect opens no connection and leaves the session
\* disconnected with mcp_tools empty.  It returns the enter-a-path message
\* with the not-connected status exactly when close() returned normally, and
\* then the old connection is closed; when close() raised it returns the
\* failure message after __aexit__, also with the not-connected status.
C23_BlankPathResetsSession ==
    [][BlankConnectReturns =>
         LET new == connHist'[Len(connHist')]
             old == connHist[Len(connHist)] IN
         /\ new.conn = None /\ Len(conns') = Len(conns)
         /\ mcp_client' = None /\ mcp_tools' = << >>
         /\ cret'[new.proc].connected = FALSE
         /\ cret'[new.proc].ntools = 0
         /\ new.res \in {"nopath", "fail"}
         /\ new.res = "nopath" <=> cpc[new.proc] = "closing"
         /\ new.res = "fail" <=> cpc[new.proc] = "exiting"
         /\ new.res = "nopath" =>
               /\ cret'[new.proc].msg = "nopath"
               /\ conns'[old.conn].st = "closed"]_vars

\* C23's case: a connect succeeded, then a connect with a blank path has
\* returned the enter-a-path message; nothing is open and the session is
\* disconnected.
C23_Witness ==
    /\ Len(connHist) = 2
    /\ connHist[1].res = "ok"
    /\ IsBlank(connHist[2].path)
    /\ connHist[2].res = "nopath"
    /\ cret[connHist[2].proc].msg = "nopath"
    /\ OpenConns = {}
    /\ mcp_client = None
    /\ mcp_tools = << >>


\* generate_image succeeds: the image service returned a path and a seed and
\* the file was read.
GiSucceeds ==
    /\ gi_in.remote.kind = "result"
    /\ Len(gi_in.remote.value) = 2
    /\ gi_in.file.ok

\* The error detail str(e) of the failure that happened.
GiErrorDetail ==
    IF gi_in.remote.kind # "result" THEN gi_in.remote.err
    ELSE IF Len(gi_in.remote.value) # 2 THEN UnpackError
    ELSE gi_in.file.err

\* The mime type the file extension of the path gives: "image/" and the
\* lower-cased extension, jpeg for jpg and when there is no extension.
MimeOfExtension(path) ==
    LET ext == Lower(Strip(splitext(path)[2])) IN
    IF ext = << >> \/ ext = <<"jpg">> THEN <<"image/", "jpeg">>
    ELSE <<"image/">> \o ext

\* C24 (as stated): on success generate_image returns a text item followed
\* by one image item whose mimeType is "image/" followed by the lower-cased
\* file extension of the image path (jpeg for jpg, and image/jpeg when the
\* path has no extension); on a failure it returns a single text item that
\* carries the error detail, and no image item.
C24_MimeFromExtension ==
    gi_out # << >> =>
        IF GiSucceeds
        THEN /\ Len(gi_out) = 2
             /\ gi_out[1].type = "text"
             /\ gi_out[2].type = "image"
             /\ gi_out[2].mimeType = MimeOfExtension(gi_in.remote.value[1])
        ELSE /\ Len(gi_out) = 1
             /\ gi_out[1] = TextContent(ResponseText(gi_in.prompt)
                                          \o <<GenerationFailed>>
                                          \o GiErrorDetail)


====
